---------------------------- MODULE Spec2Model ----------------------------
(***************************************************************************)
(* Model of src/main.cpp: the 1D heat-conduction solver (compact fourth-   *)
(* order operators, Crank-Nicolson time stepping, adiabatic closures).     *)
(*                                                                         *)
(* Arithmetic.  TLC has 32-bit integers only, so:                          *)
(*  - matrices (A, B, LHS, RHS) and the scalar parameters hold exact       *)
(*    rationals <<num, den>> in lowest terms;                              *)
(*  - state vectors hold exact rationals with one common denominator,      *)
(*    numerators and denominator being arbitrary-precision integers        *)
(*    (records [s, m]: sign and base-10000 limbs, least significant first);*)
(*  - the position test of the initial condition (x >= 0.4 && x <= 0.6)    *)
(*    is decided by IEEE-754 binary64 rounding, which is modelled bit-     *)
(*    exactly (53-bit significands, round to nearest, ties to even).       *)
(* The linear algebra of the time loop is therefore modelled in exact real *)
(* arithmetic: rounding inside Eigen's LU solve is not modelled.           *)
(***************************************************************************)
EXTENDS Integers, Sequences, FiniteSets, TLC

(***************************************************************************)
(* Bounds of the model.                                                    *)
(***************************************************************************)
MaxCells == 5
MaxSteps == 3

(***************************************************************************)
(* Small exact rationals <<num, den>>, den > 0, lowest terms.              *)
(***************************************************************************)
Abs(x) == IF x < 0 THEN -x ELSE x

RECURSIVE Gcd(_, _)
Gcd(a, b) == IF b = 0 THEN a ELSE Gcd(b, a % b)

Lcm(a, b) == (a \div Gcd(a, b)) * b

Rat(n, d) ==
    LET g == Gcd(Abs(n), Abs(d))
        s == IF d < 0 THEN -1 ELSE 1
    IN  <<(s * n) \div g, (s * d) \div g>>

RInt(k) == <<k, 1>>
RAdd(p, q) ==
    LET l == Lcm(p[2], q[2])
    IN  Rat(p[1] * (l \div p[2]) + q[1] * (l \div q[2]), l)
RNeg(p) == <<-p[1], p[2]>>
RSub(p, q) == RAdd(p, RNeg(q))
RMul(p, q) ==
    LET g1 == Gcd(Abs(p[1]), q[2])
        g2 == Gcd(Abs(q[1]), p[2])
    IN  Rat((p[1] \div g1) * (q[1] \div g2), (p[2] \div g2) * (q[2] \div g1))
RDiv(p, q) == RMul(p, IF q[1] < 0 THEN <<-q[2], -q[1]>> ELSE <<q[2], q[1]>>)
RLess(p, q) == p[1] * q[2] < q[1] * p[2]
RLeq(p, q) == p[1] * q[2] <= q[1] * p[2]
\* truncation toward zero, as static_cast<int> of a double
RTrunc(p) == IF p[1] >= 0 THEN p[1] \div p[2] ELSE -((-p[1]) \div p[2])

(***************************************************************************)
(* Arbitrary-precision naturals: sequences of base-10000 limbs, least      *)
(* significant first, no most-significant zero limb (zero is <<>>).        *)
(***************************************************************************)
Base == 100 * 100

Limb(a, i) == IF i <= Len(a) THEN a[i] ELSE 0

RECURSIVE NatTrim(_)
NatTrim(a) ==
    IF a = <<>> THEN <<>>
    ELSE IF a[Len(a)] = 0 THEN NatTrim(SubSeq(a, 1, Len(a) - 1)) ELSE a

RECURSIVE NatOfInt(_)
NatOfInt(k) == IF k = 0 THEN <<>> ELSE <<k % Base>> \o NatOfInt(k \div Base)

RECURSIVE NatAddFrom(_, _, _, _)
NatAddFrom(a, b, i, c) ==
    IF i > Len(a) /\ i > Len(b)
    THEN (IF c = 0 THEN <<>> ELSE <<c>>)
    ELSE LET s == Limb(a, i) + Limb(b, i) + c
         IN  <<s % Base>> \o NatAddFrom(a, b, i + 1, s \div Base)
NatAdd(a, b) == NatAddFrom(a, b, 1, 0)

\* a - b for a >= b
RECURSIVE NatSubFrom(_, _, _, _)
NatSubFrom(a, b, i, c) ==
    IF i > Len(a) THEN <<>>
    ELSE LET s == a[i] - Limb(b, i) - c
         IN  IF s < 0 THEN <<s + Base>> \o NatSubFrom(a, b, i + 1, 1)
             ELSE <<s>> \o NatSubFrom(a, b, i + 1, 0)
NatSub(a, b) == NatTrim(NatSubFrom(a, b, 1, 0))

\* -1, 0, 1 as a < b, a = b, a > b
RECURSIVE NatCmpFrom(_, _, _)
NatCmpFrom(a, b, i) ==
    IF i = 0 THEN 0
    ELSE IF a[i] < b[i] THEN -1
    ELSE IF a[i] > b[i] THEN 1
    ELSE NatCmpFrom(a, b, i - 1)
NatCmp(a, b) ==
    IF Len(a) < Len(b) THEN -1
    ELSE IF Len(a) > Len(b) THEN 1
    ELSE NatCmpFrom(a, b, Len(a))

\* a * k for 0 <= k < Base
RECURSIVE NatMulSmallFrom(_, _, _, _)
NatMulSmallFrom(a, k, i, c) ==
    IF i > Len(a) THEN (IF c = 0 THEN <<>> ELSE <<c>>)
    ELSE LET s == a[i] * k + c
         IN  <<s % Base>> \o NatMulSmallFrom(a, k, i + 1, s \div Base)
NatMulSmall(a, k) == IF k = 0 THEN <<>> ELSE NatMulSmallFrom(a, k, 1, 0)

RECURSIVE NatMul(_, _)
NatMul(a, b) ==
    IF a = <<>> \/ b = <<>> THEN <<>>
    ELSE LET rest == NatMul(Tail(a), b)
         IN  NatAdd(NatMulSmall(b, a[1]), IF rest = <<>> THEN <<>> ELSE <<0>> \o rest)

\* <<a div k, a mod k>> for 0 < k < Base
RECURSIVE NatDivSmallFrom(_, _, _, _)
NatDivSmallFrom(a, k, i, r) ==
    IF i = 0 THEN <<<<>>, r>>
    ELSE LET cur == r * Base + a[i]
             low == NatDivSmallFrom(a, k, i - 1, cur % k)
         IN  <<low[1] \o <<cur \div k>>, low[2]>>
NatDivSmall(a, k) ==
    LET qr == NatDivSmallFrom(a, k, Len(a), 0)
    IN  <<NatTrim(qr[1]), qr[2]>>

RECURSIVE NatPow2(_)
NatPow2(k) ==
    IF k <= 13 THEN <<2 ^ k>>
    ELSE NatMul(NatPow2(k \div 2), NatPow2(k - (k \div 2)))

(***************************************************************************)
(* Arbitrary-precision integers [s |-> sign in {-1,0,1}, m |-> magnitude]. *)
(***************************************************************************)
BigZero == [s |-> 0, m |-> <<>>]
Big(k) == IF k = 0 THEN BigZero
          ELSE [s |-> IF k < 0 THEN -1 ELSE 1, m |-> NatOfInt(Abs(k))]
BigNeg(a) == [s |-> -a.s, m |-> a.m]
BigAdd(a, b) ==
    IF a.s = 0 THEN b
    ELSE IF b.s = 0 THEN a
    ELSE IF a.s = b.s THEN [s |-> a.s, m |-> NatAdd(a.m, b.m)]
    ELSE LET c == NatCmp(a.m, b.m)
         IN  IF c = 0 THEN BigZero
             ELSE IF c > 0 THEN [s |-> a.s, m |-> NatSub(a.m, b.m)]
             ELSE [s |-> b.s, m |-> NatSub(b.m, a.m)]
BigSub(a, b) == BigAdd(a, BigNeg(b))
BigMul(a, b) ==
    IF a.s = 0 \/ b.s = 0 THEN BigZero
    ELSE [s |-> a.s * b.s, m |-> NatMul(a.m, b.m)]

(***************************************************************************)
(* IEEE-754 binary64 values [m, e] standing for m * 2^e, 0 <= m <= 2^53.   *)
(* Only what lines 98 and 124-125 need: the correctly rounded quotient of  *)
(* two small integers, the correctly rounded product of a small integer    *)
(* and a double, and comparison.  Rounding is to nearest, ties to even.    *)
(***************************************************************************)
SigBits == 52 + 1

NatOdd(a) == a # <<>> /\ a[1] % 2 = 1

\* Round N * 2^e, plus a non-zero tail below it when sticky, to SigBits bits:
\* rnd is the last bit shifted out, sticky whether any earlier one was set.
RECURSIVE DblRound(_, _, _, _)
DblRound(N, e, rnd, sticky) ==
    IF NatCmp(N, NatPow2(SigBits)) >= 0
    THEN LET qr == NatDivSmall(N, 2)
         IN  DblRound(qr[1], e + 1, qr[2], sticky \/ rnd = 1)
    ELSE IF rnd = 1 /\ (sticky \/ NatOdd(N))
         THEN [m |-> NatAdd(N, <<1>>), e |-> e]
         ELSE [m |-> N, e |-> e]

\* double(p) / double(q) for integers 0 < p, 0 < q < 1000
DblDiv(p, q) ==
    LET qr == NatDivSmall(NatMulSmall(NatPow2(64), p), q)
    IN  DblRound(qr[1], -64, 0, qr[2] # 0)

\* double(k) * x for an integer 0 <= k < Base
DblMulInt(k, x) == DblRound(NatMulSmall(x.m, k), x.e, 0, FALSE)

DblCmp(x, y) ==
    LET lo == IF x.e < y.e THEN x.e ELSE y.e
    IN  NatCmp(NatMul(x.m, NatPow2(x.e - lo)), NatMul(y.m, NatPow2(y.e - lo)))
DblLeq(x, y) == DblCmp(x, y) <= 0
DblGeq(x, y) == DblCmp(x, y) >= 0

(***************************************************************************)
(* Matrices: sequences of rows, each a sequence of rationals.  The code's  *)
(* 0-based entry M(i, j) is stored at M[i + 1][j + 1].                     *)
(***************************************************************************)
MatZero(n) == [i \in 1..n |-> [j \in 1..n |-> RInt(0)]]
At(M, i, j) == M[i + 1][j + 1]
Dim(M) == Len(M)

\* an assignment  name(i, j) = val  of the assembly, indices as in the code
Write(name, i, j, val) == [op |-> name, i |-> i, j |-> j, val |-> val]
InRange(n, w) == w.i \in 0..(n - 1) /\ w.j \in 0..(n - 1)

\* InteriorRow with the fault of a centre coefficient -1 in the difference
InteriorRowWrongCentre(i) ==
    << Write("A", i, i - 1, Rat(1, 6)), Write("A", i, i, Rat(4, 6)),
       Write("A", i, i + 1, Rat(1, 6)),
       Write("B", i, i - 1, RInt(1)), Write("B", i, i, RInt(-1)),
       Write("B", i, i + 1, RInt(1)) >>

\* lines 153-162: the interior stencils, in program order
InteriorRow(i) ==
    << Write("A", i, i - 1, Rat(1, 6)), Write("A", i, i, Rat(4, 6)),
       Write("A", i, i + 1, Rat(1, 6)),
       Write("B", i, i - 1, RInt(1)), Write("B", i, i, RInt(-2)),
       Write("B", i, i + 1, RInt(1)) >>
RECURSIVE InteriorFrom(_, _)
InteriorFrom(i, n) == IF i < n - 1 THEN InteriorRow(i) \o InteriorFrom(i + 1, n) ELSE <<>>
InteriorWrites(n) == InteriorFrom(1, n)

\* BoundaryWrites with the fault of a one-sided difference at both ends (the
\* mirrored ghost cell forgotten in B)
BoundaryWritesOneSided(n) ==
    << Write("A", 0, 0, Rat(4, 6)), Write("A", 0, 1, Rat(2, 6)),
       Write("B", 0, 0, RInt(-2)), Write("B", 0, 1, RInt(1)),
       Write("A", n - 1, n - 2, Rat(2, 6)), Write("A", n - 1, n - 1, Rat(4, 6)),
       Write("B", n - 1, n - 2, RInt(1)), Write("B", n - 1, n - 1, RInt(-2)) >>

\* lines 166-177: the two adiabatic closures, in program order
BoundaryWrites(n) ==
    << Write("A", 0, 0, Rat(4, 6)), Write("A", 0, 1, Rat(2, 6)),
       Write("B", 0, 0, RInt(-2)), Write("B", 0, 1, RInt(2)),
       Write("A", n - 1, n - 2, Rat(2, 6)), Write("A", n - 1, n - 1, Rat(4, 6)),
       Write("B", n - 1, n - 2, RInt(2)), Write("B", n - 1, n - 1, RInt(-2)) >>

AssemblyWrites(n) == InteriorWrites(n) \o BoundaryWrites(n)

\* The matrix `name` after the writes ws, applied first to last, starting
\* from M.  A write outside the matrix does not land in it.
RECURSIVE ApplyWrites(_, _, _, _)
ApplyWrites(M, name, ws, k) ==
    IF k > Len(ws) THEN M
    ELSE IF ws[k].op = name /\ InRange(Dim(M), ws[k])
         THEN ApplyWrites([M EXCEPT ![ws[k].i + 1][ws[k].j + 1] = ws[k].val],
                          name, ws, k + 1)
         ELSE ApplyWrites(M, name, ws, k + 1)

MatScale(M, c) == [i \in 1..Len(M) |-> [j \in 1..Len(M) |-> RMul(M[i][j], c)]]
MatAdd(M, N) == [i \in 1..Len(M) |-> [j \in 1..Len(M) |-> RAdd(M[i][j], N[i][j])]]
MatSub(M, N) == [i \in 1..Len(M) |-> [j \in 1..Len(M) |-> RSub(M[i][j], N[i][j])]]

\* line 98
Spacing(n) == Rat(1, n + 1)
\* lines 147-177: A and B before the scaling of line 179
AssembleA(n) == ApplyWrites(MatZero(n), "A", AssemblyWrites(n), 1)
AssembleB0(n) == ApplyWrites(MatZero(n), "B", AssemblyWrites(n), 1)
\* AssembleB with the fault of the scaling left out
AssembleBUnscaled(n) == AssembleB0(n)

\* line 179: B = B / (dx * dx)
AssembleB(n) ==
    MatScale(AssembleB0(n), RDiv(RInt(1), RMul(Spacing(n), Spacing(n))))

\* Factor with the fault of the diffusivity left out
FactorWithoutAlpha(a, h) == RDiv(h, RInt(2))

\* line 183
Factor(a, h) == RDiv(RMul(a, h), RInt(2))
\* lines 188-189
BuildLHS(MA, MB, f) == MatSub(MA, MatScale(MB, f))
BuildRHS(MA, MB, f) == MatAdd(MA, MatScale(MB, f))

(***************************************************************************)
(* State vectors [v, d]: entry i (0-based) is the rational v[i + 1] / d,   *)
(* v a sequence of big integers and d a positive big integer.              *)
(***************************************************************************)
BigOne == [s |-> 1, m |-> <<1>>]
NoVec == [v |-> <<>>, d |-> BigOne]
VecLen(x) == Len(x.v)
VecEq(x, y) ==
    /\ Len(x.v) = Len(y.v)
    /\ \A i \in 1..Len(x.v) : BigMul(x.v[i], y.d) = BigMul(y.v[i], x.d)

RECURSIVE BigSum(_, _)
BigSum(xs, k) == IF k > Len(xs) THEN BigZero ELSE BigAdd(xs[k], BigSum(xs, k + 1))

\* common denominator of a rational matrix, and the integer matrix over it
RECURSIVE LcmOf(_, _)
LcmOf(ds, k) == IF k > Len(ds) THEN 1 ELSE Lcm(ds[k], LcmOf(ds, k + 1))
MatDen(M) == LcmOf([i \in 1..Len(M) |-> LcmOf([j \in 1..Len(M) |-> M[i][j][2]], 1)], 1)
MatInt(M) ==
    LET c == MatDen(M)
    IN  [i \in 1..Len(M) |-> [j \in 1..Len(M) |-> M[i][j][1] * (c \div M[i][j][2])]]

\* line 202: b = M * x
MatVec(M, x) ==
    LET N == MatInt(M)
    IN  [v |-> [i \in 1..Len(M) |->
                  BigSum([j \in 1..Len(M) |-> BigMul(Big(N[i][j]), x.v[j])], 1)],
         d |-> BigMul(Big(MatDen(M)), x.d)]

(***************************************************************************)
(* The factorization of line 192 and its solve (line 205), in exact        *)
(* arithmetic: PartialPivLU(LHS).solve(b) is the x with LHS * x = b.  The   *)
(* factorization is held as the inverse LHS^-1 = num / den, num the        *)
(* adjugate of the integer matrix c * LHS times c, den its determinant.    *)
(***************************************************************************)
Without(xs, k) == SubSeq(xs, 1, k - 1) \o SubSeq(xs, k + 1, Len(xs))

\* determinant of the integer matrix N restricted to rows rs and columns cs,
\* by expansion along the first of the rows
RECURSIVE Det(_, _, _)
Det(N, rs, cs) ==
    IF rs = <<>> THEN BigOne
    ELSE BigSum([k \in 1..Len(cs) |->
                   IF N[rs[1]][cs[k]] = 0 THEN BigZero
                   ELSE BigMul(Big(IF k % 2 = 1 THEN N[rs[1]][cs[k]] ELSE -N[rs[1]][cs[k]]),
                               Det(N, Tail(rs), Without(cs, k)))], 1)

Indices(n) == [k \in 1..n |-> k]

Factorization(M) ==
    LET n == Len(M)
        N == MatInt(M)
        c == Big(MatDen(M))
        det == Det(N, Indices(n), Indices(n))
        sg == Big(det.s)
        cof(i, j) == \* cofactor of N[j][i]
            LET minor == Det(N, Without(Indices(n), j), Without(Indices(n), i))
            IN  IF (i + j) % 2 = 0 THEN minor ELSE BigNeg(minor)
    IN  [num |-> [i \in 1..n |-> [j \in 1..n |-> BigMul(BigMul(sg, c), cof(i, j))]],
         den |-> BigMul(sg, det)]

\* line 205: solver.solve(b)
Solve(fact, b) ==
    [v |-> [i \in 1..Len(fact.num) |->
              BigSum([j \in 1..Len(fact.num) |-> BigMul(fact.num[i][j], b.v[j])], 1)],
     d |-> BigMul(fact.den, b.d)]
NoFactorization == [num |-> <<>>, den |-> BigOne]

(***************************************************************************)
(* The command line.  Each argument is [kind, val]: kind "absent" (not     *)
(* given), "garbage" (no leading number: std::stod / std::stoi throw       *)
(* std::invalid_argument) or "num" (val is the number read).  opt is       *)
(* "help" for --help, "unknown" for an option getopt_long rejects.         *)
(***************************************************************************)
Absent == [kind |-> "absent", val |-> RInt(0)]
Garbage == [kind |-> "garbage", val |-> RInt(0)]
Num(q) == [kind |-> "num", val |-> q]

AlphaArgs == {Absent, Garbage, Num(RInt(0)), Num(Rat(1, 8)), Num(RInt(1))}
DtArgs == {Garbage, Num(Rat(1, 2)), Num(RInt(1))}
TimeArgs == {Absent} \cup {Num(Rat(k, 2)) : k \in 0..(2 * MaxSteps)}
CellArgs == {Absent, Garbage} \cup {Num(RInt(k)) : k \in (-1)..MaxCells}
OptArgs == {"none", "help", "unknown"}

\* lines 33-37: the defaults
DefaultAlpha == Rat(1, 100)
DefaultDt == Rat(1, 100)
DefaultTime == RInt(1)
ValueOr(arg, default) == IF arg.kind = "num" THEN arg.val ELSE default

\* line 99
StepCount(total, h) == RTrunc(RDiv(total, h))
\* line 112
Courant(a, h, n) == RDiv(RMul(a, h), RMul(Spacing(n), Spacing(n)))
\* CourantExceeds with the fault of a non-strict comparison
CourantAtLeast(c) == RLeq(Rat(1, 2), c)

\* line 114
CourantExceeds(c) == RLess(Rat(1, 2), c)

\* lines 120-133: the initial profile; x = (i + 1) * dx in binary64
Position(i, n) == DblMulInt(i + 1, DblDiv(1, n + 1))
InHotBand(x) == DblGeq(x, DblDiv(4, 10)) /\ DblLeq(x, DblDiv(6, 10))
InitialProfile(n) ==
    [v |-> [k \in 1..n |-> IF InHotBand(Position(k - 1, n)) THEN Big(100) ELSE Big(0)],
     d |-> BigOne]

\* line 211: whether step t reports progress
ProgressDue(t, steps) ==
    \/ (t + 1) % (IF steps \div 10 = 0 THEN 1 ELSE steps \div 10) = 0
    \/ t = steps - 1

VARIABLES
    argv,            \* the command line
    pc,              \* position in main
    exit_code,       \* -1 while running; 134 stands for abnormal termination
    alpha, dt, total_time, num_x,           \* lines 33-37
    num_t_steps, courant_number,            \* lines 99, 112
    out, err,        \* what was written to std::cout and std::cerr
    T_current,       \* line 120
    results_dir,     \* whether "mkdir -p results" ran (line 143)
    A, B,            \* lines 147-148
    written,         \* the (matrix, row, column) places lines 153-177 assigned
    LHS, RHS,        \* lines 188-189
    solver,          \* line 192
    factorizations,  \* how often a factorization was computed
    T_history,       \* line 196
    t,               \* the loop counter of line 199
    csv_files,       \* the number of per-step files written (line 221)
    all_timesteps    \* whether the combined file was written (line 231)

vars == <<argv, pc, exit_code, alpha, dt, total_time, num_x, num_t_steps,
          courant_number, out, err, T_current, results_dir, A, B, written,
          LHS, RHS, solver, factorizations, T_history, t, csv_files,
          all_timesteps>>

params == <<alpha, dt, total_time, num_x, num_t_steps, courant_number>>
operators == <<A, B, written, LHS, RHS, solver, factorizations>>
outputs == <<results_dir, csv_files, all_timesteps>>

\* The runs explored: a time step is always given (the default 0.01 needs
\* a hundred steps per unit of time) and at most MaxSteps steps are taken.
Explored(args) ==
    IF args.dt.kind = "num"
    THEN StepCount(ValueOr(args.time, DefaultTime), args.dt.val) <= MaxSteps
    ELSE TRUE

Init ==
    /\ argv \in [opt : OptArgs, alpha : AlphaArgs, dt : DtArgs, time : TimeArgs,
                 cells : CellArgs]
    /\ Explored(argv)
    /\ pc = "parse_options"
    /\ exit_code = -1
    /\ alpha = DefaultAlpha
    /\ dt = DefaultDt
    /\ total_time = DefaultTime
    /\ num_x = -1
    /\ num_t_steps = 0
    /\ courant_number = RInt(0)
    /\ out = <<>>
    /\ err = <<>>
    /\ T_current = NoVec
    /\ results_dir = FALSE
    /\ A = <<>>
    /\ B = <<>>
    /\ written = {}
    /\ LHS = <<>>
    /\ RHS = <<>>
    /\ solver = NoFactorization
    /\ factorizations = 0
    /\ T_history = <<>>
    /\ t = 0
    /\ csv_files = 0
    /\ all_timesteps = FALSE

\* return <code> from main
Return(code) == pc' = "exit" /\ exit_code' = code
\* an exception nobody catches, or a failed assertion: std::terminate / abort.
\* The program writes nothing; the runtime may or may not write a diagnostic
\* of its own on the error stream before the process is killed.
Terminate ==
    /\ pc' = "aborted"
    /\ exit_code' = 134
    /\ \E said \in BOOLEAN : err' = IF said THEN err \o <<"abort diagnostic">> ELSE err

\* lines 52-77
ParseOptions ==
    /\ pc = "parse_options"
    /\ IF argv.opt = "help"
       THEN Return(0) /\ err' = err \o <<"usage">> /\ UNCHANGED <<alpha, dt, total_time>>
       ELSE IF argv.opt = "unknown"
       THEN Return(1) /\ err' = err \o <<"usage">> /\ UNCHANGED <<alpha, dt, total_time>>
       ELSE IF argv.alpha.kind = "garbage" \/ argv.dt.kind = "garbage"
       THEN Terminate /\ UNCHANGED <<alpha, dt, total_time>>
       ELSE /\ alpha' = ValueOr(argv.alpha, alpha)
            /\ dt' = ValueOr(argv.dt, dt)
            /\ total_time' = ValueOr(argv.time, total_time)
            /\ pc' = "get_cells"
            /\ UNCHANGED <<err, exit_code>>
    /\ UNCHANGED <<argv, num_x, num_t_steps, courant_number, out, T_current,
                   operators, outputs, T_history, t>>

\* lines 80-89
GetCells ==
    /\ pc = "get_cells"
    /\ IF argv.cells.kind = "num"
       THEN /\ num_x' = argv.cells.val[1]
            /\ pc' = "check_cells"
            /\ UNCHANGED <<err, exit_code>>
       ELSE IF argv.cells.kind = "garbage"
       THEN Terminate /\ UNCHANGED num_x
       ELSE /\ Return(1)
            /\ err' = err \o <<"Error: Number of cells is required.", "usage">>
            /\ UNCHANGED num_x
    /\ UNCHANGED <<argv, alpha, dt, total_time, num_t_steps, courant_number, out,
                   T_current, operators, outputs, T_history, t>>

\* lines 91-95
CheckCells ==
    /\ pc = "check_cells"
    /\ IF num_x <= 0
       THEN Return(1) /\ err' = err \o <<"Error: Number of cells must be positive.">>
       ELSE pc' = "setup" /\ UNCHANGED <<err, exit_code>>
    /\ UNCHANGED <<argv, params, out, T_current, operators, outputs, T_history, t>>

\* lines 98-109
Setup ==
    /\ pc = "setup"
    /\ num_t_steps' = StepCount(total_time, dt)
    /\ out' = out \o <<"summary">>
    /\ pc' = "stability"
    /\ UNCHANGED <<argv, exit_code, alpha, dt, total_time, num_x, courant_number,
                   err, T_current, operators, outputs, T_history, t>>

\* lines 112-117
StabilityCheck ==
    /\ pc = "stability"
    /\ courant_number' = Courant(alpha, dt, num_x)
    /\ out' = out \o <<"courant">>
    /\ err' = IF CourantExceeds(courant_number')
              THEN err \o <<"Warning: Courant number > 0.5.">> ELSE err
    /\ pc' = "initial"
    /\ UNCHANGED <<argv, exit_code, alpha, dt, total_time, num_x, num_t_steps,
                   T_current, operators, outputs, T_history, t>>

\* lines 120-133
InitialConditions ==
    /\ pc = "initial"
    /\ T_current' = InitialProfile(num_x)
    /\ pc' = "results_dir"
    /\ UNCHANGED <<argv, exit_code, params, out, err, operators, outputs,
                   T_history, t>>

\* lines 139-143
MakeResultsDir ==
    /\ pc = "results_dir"
    /\ out' = out \o <<"initial_profile">>
    /\ results_dir' = TRUE
    /\ pc' = "assemble"
    /\ UNCHANGED <<argv, exit_code, params, err, T_current, operators, csv_files,
                   all_timesteps, T_history, t>>

\* lines 147-179.  An assignment outside the matrix (num_x = 1: A(0, 1),
\* A(0, -1), B(0, 1), B(0, -1)) is undefined behaviour: Eigen's index
\* assertion aborts the run when assertions are compiled in; otherwise the
\* store lands outside the matrix and the run goes on (see HeapFailure).
Assemble ==
    /\ pc = "assemble"
    /\ written' = {<<w.op, w.i, w.j>> : w \in {AssemblyWrites(num_x)[k] :
                                               k \in 1..Len(AssemblyWrites(num_x))}}
    /\ A' = AssembleA(num_x)
    /\ B' = AssembleB(num_x)
    /\ \/ pc' = "build" /\ UNCHANGED <<exit_code, err>>
       \/ /\ \E w \in written' : ~(w[2] \in 0..(num_x - 1) /\ w[3] \in 0..(num_x - 1))
          /\ Terminate
    /\ UNCHANGED <<argv, params, out, T_current, outputs, LHS, RHS, solver,
                   factorizations, T_history, t>>

\* lines 182-189
BuildSystem ==
    /\ pc = "build"
    /\ LHS' = BuildLHS(A, B, Factor(alpha, dt))
    /\ RHS' = BuildRHS(A, B, Factor(alpha, dt))
    /\ pc' = "factorize"
    /\ UNCHANGED <<argv, exit_code, params, out, err, T_current, outputs, A, B,
                   written, solver, factorizations, T_history, t>>

\* line 192
Factorize ==
    /\ pc = "factorize"
    /\ solver' = Factorization(LHS)
    /\ factorizations' = factorizations + 1
    /\ pc' = "history"
    /\ UNCHANGED <<argv, exit_code, params, out, err, T_current, outputs, A, B,
                   written, LHS, RHS, T_history, t>>

\* lines 195-197
InitHistory ==
    /\ pc = "history"
    /\ T_history' = Append(T_history, T_current)
    /\ t' = 0
    /\ pc' = "loop"
    /\ UNCHANGED <<argv, exit_code, params, out, err, T_current, outputs,
                   operators>>

\* Step with the fault of recording the state before it is advanced
StepRecordingStale ==
    /\ pc = "loop"
    /\ t < num_t_steps
    /\ T_current' = Solve(solver, MatVec(RHS, T_current))
    /\ T_history' = Append(T_history, T_current)
    /\ out' = IF ProgressDue(t, num_t_steps) THEN out \o <<"progress">> ELSE out
    /\ t' = t + 1
    /\ UNCHANGED <<argv, pc, exit_code, params, err, outputs, operators>>

\* Step with the fault of factorizing again in every pass
StepRefactorizing ==
    /\ pc = "loop"
    /\ t < num_t_steps
    /\ solver' = Factorization(LHS)
    /\ factorizations' = factorizations + 1
    /\ T_current' = Solve(solver', MatVec(RHS, T_current))
    /\ T_history' = Append(T_history, T_current')
    /\ out' = IF ProgressDue(t, num_t_steps) THEN out \o <<"progress">> ELSE out
    /\ t' = t + 1
    /\ UNCHANGED <<argv, pc, exit_code, params, err, outputs, A, B, written, LHS, RHS>>

\* lines 199-215: one pass of the loop body (T_next is the solve's result)
Step ==
    /\ pc = "loop"
    /\ t < num_t_steps
    /\ T_current' = Solve(solver, MatVec(RHS, T_current))
    /\ T_history' = Append(T_history, T_current')
    /\ out' = IF ProgressDue(t, num_t_steps) THEN out \o <<"progress">> ELSE out
    /\ t' = t + 1
    /\ UNCHANGED <<argv, pc, exit_code, params, err, outputs, operators>>

\* line 199: the loop condition fails
LoopExit ==
    /\ pc = "loop"
    /\ ~(t < num_t_steps)
    /\ pc' = "output"
    /\ UNCHANGED <<argv, exit_code, params, out, err, T_current, outputs,
                   operators, T_history, t>>

\* lines 218-243
WriteResults ==
    /\ pc = "output"
    /\ csv_files' = Len(T_history)
    /\ all_timesteps' = TRUE
    /\ out' = out \o <<"writing", "completed">>
    /\ Return(0)
    /\ UNCHANGED <<argv, params, err, T_current, results_dir, operators,
                   T_history, t>>

\* After a store outside a matrix the heap may be damaged: the run can end
\* abnormally at any later point.
HeapFailure ==
    /\ pc \in {"build", "factorize", "history", "loop", "output"}
    /\ \E w \in written : ~(w[2] \in 0..(num_x - 1) /\ w[3] \in 0..(num_x - 1))
    /\ Terminate
    /\ UNCHANGED <<argv, params, out, T_current, outputs, operators,
                   T_history, t>>

Next ==
    \/ ParseOptions
    \/ GetCells
    \/ CheckCells
    \/ Setup
    \/ StabilityCheck
    \/ InitialConditions
    \/ MakeResultsDir
    \/ Assemble
    \/ BuildSystem
    \/ Factorize
    \/ InitHistory
    \/ Step
    \/ LoopExit
    \/ WriteResults
    \/ HeapFailure

Spec == Init /\ [][Next]_vars

(***************************************************************************)
(* Vocabulary of the properties.                                           *)
(***************************************************************************)
Has(seq, x) == \E k \in 1..Len(seq) : seq[k] = x
Count(seq, x) == Cardinality({k \in 1..Len(seq) : seq[k] = x})
Warned == Has(err, "Warning: Courant number > 0.5.")
Ended == pc \in {"exit", "aborted"}
Assembled == A # <<>>
SystemBuilt == LHS # <<>>
Complete == pc = "output" \/ (pc = "exit" /\ all_timesteps)
OutOfRangeStore ==
    \E w \in written : ~(w[2] \in 0..(num_x - 1) /\ w[3] \in 0..(num_x - 1))

RowSum(M, i) ==
    LET row == [j \in 1..Len(M) |-> M[i + 1][j]]
        SumFrom[k \in 1..(Len(M) + 1)] ==
            IF k > Len(M) THEN RInt(0) ELSE RAdd(row[k], SumFrom[k + 1])
    IN  SumFrom[1]
Banded(M) ==
    \A i, j \in 0..(Len(M) - 1) : Abs(i - j) > 1 => At(M, i, j) = RInt(0)

\* sum of the entries of a state vector, and the same with the first and the
\* last entry counted half (both times the denominator 2 * x.d is left out)
PlainSum2(x) == BigMul(Big(2), BigSum(x.v, 1))
TrapezoidSum2(x) ==
    BigSub(PlainSum2(x), BigAdd(x.v[1], x.v[Len(x.v)]))
SameOver(n1, d1, n2, d2) == BigMul(n1, d2) = BigMul(n2, d1)

(***************************************************************************)
(* C1: an invalid configuration (cell count missing, cell count <= 0, an   *)
(* unparsable numeric argument) is reported to the user and the run ends   *)
(* before any allocation and any output: nothing on std::cout, no state    *)
(* vector, no operator, no results directory, no CSV file; and once the    *)
(* run has ended it ended by returning, with a message on std::cerr (a run  *)
(* killed by an uncaught exception has reported nothing of its own).       *)
(***************************************************************************)
InvalidConfiguration ==
    \/ argv.cells.kind \in {"absent", "garbage"}
    \/ argv.cells.val[1] <= 0
    \/ argv.alpha.kind = "garbage"
    \/ argv.dt.kind = "garbage"

C1_InvalidConfigurationReported ==
    InvalidConfiguration =>
        /\ out = <<>>
        /\ T_current = NoVec /\ ~Assembled /\ ~SystemBuilt
        /\ ~results_dir /\ csv_files = 0 /\ ~all_timesteps
        /\ Ended => (pc = "exit" /\ err # <<>>)

(***************************************************************************)
(* C2: for one cell, assembly gives 1x1 operators and every index it       *)
(* assigns lies in 0 .. cell_count - 1.                                    *)
(***************************************************************************)
C2_SingleCellInRange ==
    (num_x = 1 /\ Assembled) =>
        /\ Dim(A) = 1 /\ Dim(B) = 1
        /\ ~OutOfRangeStore

(***************************************************************************)
(* C3 as stated: every state of the history has the same plain sum of      *)
(* entries (read on grids of two or more cells, whose assembly stays in    *)
(* range).                                                                 *)
(***************************************************************************)
C3_PlainSumConserved ==
    num_x >= 2 =>
        \A k \in 1..Len(T_history) :
            SameOver(PlainSum2(T_history[k]), T_history[k].d,
                     PlainSum2(T_history[1]), T_history[1].d)

(***************************************************************************)
(* C3 amended: on a grid of two or more cells every state of the history   *)
(* has the same trapezoid sum: the sum of its entries with the first and   *)
(* the last entry counted half.                                            *)
(***************************************************************************)
C3_TrapezoidSumConserved ==
    num_x >= 2 =>
        \A k \in 1..Len(T_history) :
            SameOver(TrapezoidSum2(T_history[k]), T_history[k].d,
                     TrapezoidSum2(T_history[1]), T_history[1].d)

C3_Witness ==
    /\ num_x >= 3
    /\ Len(T_history) >= 3
    /\ ~VecEq(T_history[3], T_history[1])
    /\ ~SameOver(PlainSum2(T_history[3]), T_history[3].d,
                 PlainSum2(T_history[1]), T_history[1].d)

InClosedBand(i, n) ==
    RLeq(Rat(4, 10), Rat(i + 1, n + 1)) /\ RLeq(Rat(i + 1, n + 1), Rat(6, 10))

C5_InitialProfileClosedBand ==
    pc = "results_dir" =>
        /\ VecLen(T_current) = num_x
        /\ T_current.d = BigOne
        /\ \A i \in 0..(num_x - 1) :
              T_current.v[i + 1] = IF InClosedBand(i, num_x) THEN Big(100) ELSE Big(0)

(***************************************************************************)
(* C6: the history starts with the initial state; one state is appended    *)
(* per step, in step order; entry k + 1 solves LHS * x = RHS * entry k;    *)
(* appended entries never change; every entry has cell_count entries; and  *)
(* when the loop is complete the history holds step_count + 1 entries.     *)
(***************************************************************************)
HistoryShape ==
    /\ pc \in {"parse_options", "get_cells", "check_cells", "setup", "stability",
               "initial", "results_dir", "assemble", "build", "factorize",
               "history"} => T_history = <<>>
    /\ T_history # <<>> => T_history[1] = InitialProfile(num_x)
    /\ pc = "loop" =>
          /\ Len(T_history) = t + 1
          /\ t <= num_t_steps
          /\ T_current = T_history[Len(T_history)]
    /\ \A k \in 1..Len(T_history) : VecLen(T_history[k]) = num_x
    /\ \A k \in 1..(Len(T_history) - 1) :
          VecEq(MatVec(LHS, T_history[k + 1]), MatVec(RHS, T_history[k]))
    /\ Complete => Len(T_history) = num_t_steps + 1

HistoryAppendOnly ==
    \/ T_history' = T_history
    \/ /\ Len(T_history') = Len(T_history) + 1
       /\ SubSeq(T_history', 1, Len(T_history)) = T_history
       /\ \/ pc = "history" /\ pc' = "loop" /\ T_history = <<>>
          \/ pc = "loop" /\ pc' = "loop" /\ t' = t + 1 /\ t < num_t_steps

C6_HistoryStateMachine == []HistoryShape /\ [][HistoryAppendOnly]_vars

C6_Witness ==
    /\ Complete
    /\ num_x >= 3
    /\ Len(T_history) >= 3
    /\ ~VecEq(T_history[2], T_history[1])
    /\ ~VecEq(T_history[3], T_history[2])

(***************************************************************************)
(* C7: for three or more cells (and a positive time step) LHS and RHS are  *)
(* banded (zero off the three central diagonals) and in every row          *)
(* sum(LHS row) + sum(RHS row) = 2 * sum(A row), every row of the          *)
(* diffusion operator summing to zero.                                     *)
(***************************************************************************)
C7_BandedRowSums ==
    (num_x >= 3 /\ SystemBuilt /\ RLess(RInt(0), dt)) =>
        /\ Banded(LHS) /\ Banded(RHS)
        /\ \A i \in 0..(num_x - 1) :
              /\ RowSum(B, i) = RInt(0)
              /\ RAdd(RowSum(LHS, i), RowSum(RHS, i)) = RMul(RInt(2), RowSum(A, i))

C7_Witness ==
    /\ num_x >= 4
    /\ SystemBuilt
    /\ RLess(RInt(0), alpha)
    /\ At(LHS, 1, 2) # At(RHS, 1, 2)
    /\ At(LHS, 1, 2) # RInt(0)

(***************************************************************************)
(* C8: for two or more cells the assembled operators have exactly these    *)
(* entries, zero elsewhere: interior rows average [1/6, 4/6, 1/6] and      *)
(* difference [1, -2, 1] around the diagonal; row 0 has 4/6, 2/6 and       *)
(* -2, 2 at columns 0, 1; the last row 2/6, 4/6 and 2, -2 at its last two  *)
(* columns; every diffusion entry divided by spacing^2.                    *)
(***************************************************************************)
ExpectedA(n, i, j) ==
    IF i = 0 THEN (IF j = 0 THEN Rat(4, 6) ELSE IF j = 1 THEN Rat(2, 6) ELSE RInt(0))
    ELSE IF i = n - 1
    THEN (IF j = n - 2 THEN Rat(2, 6) ELSE IF j = n - 1 THEN Rat(4, 6) ELSE RInt(0))
    ELSE (IF j = i THEN Rat(4, 6) ELSE IF Abs(i - j) = 1 THEN Rat(1, 6) ELSE RInt(0))
ExpectedB(n, i, j) ==
    IF i = 0 THEN (IF j = 0 THEN -2 ELSE IF j = 1 THEN 2 ELSE 0)
    ELSE IF i = n - 1
    THEN (IF j = n - 2 THEN 2 ELSE IF j = n - 1 THEN -2 ELSE 0)
    ELSE (IF j = i THEN -2 ELSE IF Abs(i - j) = 1 THEN 1 ELSE 0)

C8_AssembledEntries ==
    (num_x >= 2 /\ Assembled) =>
        /\ Dim(A) = num_x /\ Dim(B) = num_x
        /\ \A i, j \in 0..(num_x - 1) :
              /\ At(A, i, j) = ExpectedA(num_x, i, j)
              /\ At(B, i, j) = Rat(ExpectedB(num_x, i, j) * (num_x + 1) * (num_x + 1), 1)

C8_Witness == num_x >= 4 /\ Assembled /\ pc = "build"

(***************************************************************************)
(* C9: LHS is factorized exactly once, after the system operators are      *)
(* built and before the first step; while the loop runs the operators, the *)
(* factorization and the scalar parameters do not change, so every solve   *)
(* uses that one factorization.                                            *)
(***************************************************************************)
FactorizedOnce ==
    /\ factorizations = IF solver = NoFactorization THEN 0 ELSE 1
    /\ solver # NoFactorization => SystemBuilt
    /\ T_history # <<>> => factorizations = 1

FrozenWhileStepping ==
    /\ solver # NoFactorization => solver' = solver /\ factorizations' = factorizations
    /\ pc = "loop" =>
          UNCHANGED <<A, B, LHS, RHS, solver, alpha, dt, total_time, num_t_steps,
                      num_x>>

C9_FactorizedOnceAndFrozen == []FactorizedOnce /\ [][FrozenWhileStepping]_vars

C9_Witness == pc = "loop" /\ t >= 2 /\ factorizations = 1 /\ num_x >= 2

(***************************************************************************)
(* C10: the stability check runs once, before any step; the advisory is    *)
(* written exactly when diffusivity * time_step / spacing^2 > 0.5 (not at  *)
(* 0.5); and it is not fatal: an advised run that returns has returned 0   *)
(* after its step_count steps, and only a store out of range aborts a run  *)
(* that got this far.                                                      *)
(***************************************************************************)
C10_AdvisoryOnlyAboveHalf ==
    /\ Count(out, "courant") <= 1
    /\ Count(err, "Warning: Courant number > 0.5.") <= 1
    /\ T_history # <<>> => Has(out, "courant")
    /\ Warned => Has(out, "courant")
    /\ Has(out, "courant") =>
          (Warned <=> RLess(Rat(1, 2), Courant(alpha, dt, num_x)))
    /\ (Has(out, "courant") /\ pc = "exit") =>
          exit_code = 0 /\ Len(T_history) = num_t_steps + 1
    /\ (Has(out, "courant") /\ pc = "aborted") => OutOfRangeStore

C10_Witness ==
    /\ Warned
    /\ pc = "exit"
    /\ exit_code = 0
    /\ Len(T_history) >= 3

=============================================================================
